---- MODULE Spec2Model ----
(***************************************************************************)
(* FHIRTerminologyClient (scripts/onto.py): the token life cycle behind    *)
(* the auto_refresh_token decorator and the two value-set lookups,         *)
(* retrieve_concept_codes_from_id and retrieve_concept_codes_from_desc.    *)
(*                                                                         *)
(* Time is counted in ticks, TicksPerSecond ticks to the second, so that   *)
(* round(time.time()) is a real rounding.  Every caller thread runs one    *)
(* operation at a time; a step of a thread is the code between two         *)
(* blocking HTTP calls.                                                    *)
(***************************************************************************)
EXTENDS Integers, Sequences, FiniteSets, TLC

\* ------------------------------------------------------------------ bounds
TicksPerSecond == 2     \* resolution of time.time()
MaxTime        == 5     \* last clock value, in ticks
MaxExpiresIn   == 2     \* largest expires_in the token endpoint answers
MaxTokens      == 3     \* token POSTs sent over the life of the client
MaxConcepts    == 2     \* longest concept list of a ValueSet body
SharedTime     == 2     \* last clock value when callers share the instance

\* --------------------------------------------------------- program constants
HTTP_OK == 200

\* ------------------------------------------------------------- environment
Threads    == {1, 2}
QueryTypes == {"url", "name", "code"}      \* "code" is not an allowed type
NoToken    == 0                            \* self._access_token not yet assigned

\* a URL is the sequence of its parts, the first being the server's base
TOKEN_URL  == <<"authorisation/", "openid-connect/token">>
BASE_URL   == "authoring/fhir/"
FullUrls   == {<<"authoring/fhir/", "ValueSet/42">>, <<"elsewhere/fhir/", "ValueSet/7">>}

\* statuses a final response can carry: the token endpoint's (2xx, a 3xx that
\* is no redirect, 4xx) and the FHIR server's
TokenStatuses == {200, 304, 401}
DataStatuses  == {200, 204, 404}

\* --- dictionaries: a JSON object is a record, a missing key a missing field
Has(d, k) == k \in DOMAIN d

\* --- token endpoint answers
TokenObjects(tok) ==
    {[access_token |-> tok, expires_in |-> n] : n \in 0..MaxExpiresIn}
        \cup {[expires_in |-> MaxExpiresIn],
              [access_token |-> tok],
              [error |-> "invalid_client"]}

TokenResponses(tok) ==
    {[kind |-> "error", status |-> 0, json |-> FALSE, obj |-> [error |-> "none"]]}
        \cup {[kind |-> "response", status |-> s, json |-> FALSE, obj |-> [error |-> "none"]]
                : s \in TokenStatuses}
        \cup {[kind |-> "response", status |-> s, json |-> TRUE, obj |-> o]
                : s \in TokenStatuses, o \in TokenObjects(tok)}

\* the same, cut down to a refusal and the two shortest lifetimes
FewTokenResponses(tok) ==
    {[kind |-> "response", status |-> 401, json |-> TRUE, obj |-> [error |-> "invalid_client"]]}
        \cup {[kind |-> "response", status |-> 200, json |-> TRUE,
                obj |-> [access_token |-> tok, expires_in |-> n]] : n \in 0..1}

TokenAnswers(answers, tok) ==
    IF answers.tokens = "all" THEN TokenResponses(tok) ELSE FewTokenResponses(tok)

\* --- FHIR answers
Concepts == {[code |-> "A"], [display |-> "no code here"]}

ConceptLists == UNION {[1..n -> Concepts] : n \in 0..MaxConcepts}

ValueSets ==
    {[resourceType |-> "ValueSet"],
     [resourceType |-> "ValueSet", compose |-> [inactive |-> FALSE]],
     [resourceType |-> "ValueSet", compose |-> [include |-> <<>>]],
     [resourceType |-> "ValueSet", compose |-> [include |-> <<[system |-> "sct"]>>]]}
        \cup {[resourceType |-> "ValueSet",
               compose |-> [include |-> <<[system |-> "sct", concept |-> cs]>>]]
                : cs \in ConceptLists}
        \cup {[resourceType |-> "ValueSet",
               compose |-> [include |-> <<[system |-> "sct",
                    concept |-> <<[code |-> "A"], [code |-> "B"], [display |-> "none"]>>]>>]]}
        \cup {[resourceType |-> "ValueSet",
               compose |-> [include |-> <<[system |-> "sct", concept |-> <<[code |-> "A"]>>],
                                          [system |-> "sct", concept |-> <<[code |-> "B"]>>]>>]]}

Bundles ==
    {[resourceType |-> "Bundle", total |-> 0],
     [resourceType |-> "Bundle", entry |-> <<>>],
     [resourceType |-> "Bundle", entry |-> <<[resource |-> "ValueSet"]>>]}
        \cup {[resourceType |-> "Bundle", entry |-> <<[fullUrl |-> u]>>] : u \in FullUrls}
        \cup {[resourceType |-> "Bundle", entry |-> <<[fullUrl |-> p[1]], [fullUrl |-> p[2]]>>]
                : p \in {q \in FullUrls \X FullUrls : q[1] # q[2]}}

\* what the FHIR server sends with a status other than 200: an
\* OperationOutcome, or a resource all the same
OperationOutcome == [resourceType |-> "OperationOutcome"]
SomeValueSet ==
    [resourceType |-> "ValueSet",
     compose |-> [include |-> <<[system |-> "sct", concept |-> <<[code |-> "A"]>>]>>]]
SomeBundle ==
    [resourceType |-> "Bundle", entry |-> <<[fullUrl |-> <<"authoring/fhir/", "ValueSet/42">>]>>]

ValueSetResponses ==
    [status : {200}, body : ValueSets]
        \cup [status : DataStatuses \ {200}, body : {OperationOutcome, SomeValueSet}]

BundleResponses ==
    [status : {200}, body : Bundles]
        \cup [status : DataStatuses \ {200}, body : {OperationOutcome, SomeBundle}]

\* ------------------------------------------------------------ pure functions

\* round(): to the nearest whole second, a tie to the even one
Round(t) ==
    LET q == t \div TicksPerSecond
        r == t % TicksPerSecond
    IN  IF 2 * r < TicksPerSecond THEN q
        ELSE IF 2 * r > TicksPerSecond THEN q + 1
        ELSE IF q % 2 = 0 THEN q ELSE q + 1

\* every call refreshes, whatever the stored expiry
ExpiredAlways(t, expire_time) == TRUE

\* the comparison turned round: a token is refreshed while it is still good
ExpiredReversed(t, expire_time) == t < expire_time * TicksPerSecond

\* time.time() > self._access_token_expire_time
Expired(t, expire_time) == t > expire_time * TicksPerSecond

\* the status of the answer is never looked at
RaiseNever(status) == FALSE

\* response.raise_for_status(): HTTPError for a 4xx or 5xx status
RaiseForStatus(status) == status >= 400 /\ status < 600

Returned(tok, exp) == [raised |-> FALSE, exc |-> "none", token |-> tok, expiry |-> exp]
Raised(e)          == [raised |-> TRUE, exc |-> e, token |-> NoToken, expiry |-> 0]

\* raise ValueError("Failed to retrieve access token.")
TokenError == "ValueError: Failed to retrieve access token."

\* FHIRTerminologyClient._get_access_token, from the answer to the POST on;
\* t is time.time() when the answer is read
GetAccessToken(resp, t) ==
    IF resp.kind = "error" THEN Raised(TokenError)
    ELSE IF RaiseForStatus(resp.status) THEN Raised(TokenError)
    ELSE IF ~resp.json THEN Raised(TokenError)      \* response.json() raises
    ELSE IF ~Has(resp.obj, "access_token") THEN Raised("KeyError: access_token")
    ELSE IF ~Has(resp.obj, "expires_in") THEN Raised("KeyError: expires_in")
    ELSE Returned(resp.obj.access_token, Round(t) + resp.obj.expires_in)

\* a failed fetch wipes the stored pair
InitialiseOrClear(cur, res) ==
    IF res.raised THEN <<NoToken, 0>> ELSE <<res.token, res.expiry>>

\* FHIRTerminologyClient._initialise_access_token: the pair is assigned only
\* when _get_access_token returns
InitialiseAccessToken(cur, res) ==
    IF res.raised THEN cur ELSE <<res.token, res.expiry>>

Codes(cs)  == [raised |-> FALSE, exc |-> "none", codes |-> cs]
Throws(e)  == [raised |-> TRUE, exc |-> e, codes |-> <<>>]
NoResult   == [raised |-> FALSE, exc |-> "pending", codes |-> <<>>]

\* only a 404 counts as a failure
StatusNot404(status) == status # 404

\* response.status_code == 200
StatusOk(status) == status = HTTP_OK

\* value_set.get("compose", {}).get("include", [])
Include(value_set) ==
    IF Has(value_set, "compose") /\ Has(value_set.compose, "include")
    THEN value_set.compose.include
    ELSE <<>>

\* item.get("code"): nothing stands in for a missing code
CodeOrNone(item) == IF Has(item, "code") THEN item.code ELSE "None"

\* item.get("code", "no code listed")
CodeOf(item) == IF Has(item, "code") THEN item.code ELSE "no code listed"

\* the extraction both lookups run on a 200 ValueSet body
ExtractCodes(value_set) ==
    LET include == Include(value_set)
    IN  IF Len(include) = 0 THEN Throws("IndexError")
        ELSE LET concepts == IF Has(include[1], "concept")
                             THEN include[1].concept ELSE <<>>
             IN  Codes([i \in 1..Len(concepts) |-> CodeOf(concepts[i])])

\* retrieve_concept_codes_from_id, from the answer to its GET on
FromIdResult(resp) ==
    IF StatusOk(resp.status) THEN ExtractCodes(resp.body) ELSE Codes(<<>>)

\* the last match wins: bundle["entry"][-1]["fullUrl"]
LastFullUrl(bundle) ==
    IF ~Has(bundle, "entry")
    THEN [raised |-> TRUE, exc |-> "KeyError: entry", url |-> <<>>]
    ELSE IF Len(bundle.entry) = 0
    THEN [raised |-> TRUE, exc |-> "IndexError", url |-> <<>>]
    ELSE IF ~Has(bundle.entry[Len(bundle.entry)], "fullUrl")
    THEN [raised |-> TRUE, exc |-> "KeyError: fullUrl", url |-> <<>>]
    ELSE [raised |-> FALSE, exc |-> "none", url |-> bundle.entry[Len(bundle.entry)].fullUrl]

\* bundle["entry"][0]["fullUrl"]
FirstFullUrl(bundle) ==
    IF ~Has(bundle, "entry")
    THEN [raised |-> TRUE, exc |-> "KeyError: entry", url |-> <<>>]
    ELSE IF Len(bundle.entry) = 0
    THEN [raised |-> TRUE, exc |-> "IndexError", url |-> <<>>]
    ELSE IF ~Has(bundle.entry[1], "fullUrl")
    THEN [raised |-> TRUE, exc |-> "KeyError: fullUrl", url |-> <<>>]
    ELSE [raised |-> FALSE, exc |-> "none", url |-> bundle.entry[1].fullUrl]

\* except IndexError: return []
CatchIndexError(r) ==
    IF r.raised /\ r.exc = "IndexError" THEN Codes(<<>>) ELSE r

\* retrieve_concept_codes_from_desc, from the answer to its second GET on
FromDescResult(resp) ==
    IF StatusOk(resp.status) THEN CatchIndexError(ExtractCodes(resp.body)) ELSE Codes(<<>>)

\* raise ValueError("Invalid query_type. Use 'url' or 'name'.")
QueryTypeError == "ValueError: Invalid query_type. Use 'url' or 'name'."

\* query_type not in ["url", "name"]
InvalidQueryType(query_type) == query_type \notin {"url", "name"}

\* --- the standalone helpers: scripts/auth.py and scripts/get_access_token.py
\* os.getenv: a variable is unset (None), empty, or set
Environments == [CLIENT_ID : {"unset", "", "id"}, CLIENT_SECRET : {"unset", "", "secret"}]

\* not client_id or not client_secret
CredentialsMissing(env) ==
    env.CLIENT_ID \in {"unset", ""} \/ env.CLIENT_SECRET \in {"unset", ""}

\* what the token endpoint may answer a helper: as above, or a body whose
\* access_token is empty (NoToken stands for "" and null)
HelperResponses ==
    TokenResponses(1)
        \cup {[kind |-> "response", status |-> 200, json |-> TRUE,
                obj |-> [access_token |-> NoToken, expires_in |-> 1]]}

ReturnToken(tok) == [raised |-> FALSE, exc |-> "none", none |-> FALSE, token |-> tok]
ReturnNone       == [raised |-> FALSE, exc |-> "none", none |-> TRUE, token |-> NoToken]
HelperRaises(e)  == [raised |-> TRUE, exc |-> e, none |-> FALSE, token |-> NoToken]

\* response.json().get('access_token'); if not access_token: raise ValueError
TokenOrValueError(resp) ==
    IF Has(resp.obj, "access_token") /\ resp.obj.access_token # NoToken
    THEN ReturnToken(resp.obj.access_token)
    ELSE HelperRaises("ValueError: no access token")

\* get_access_token.py, get_access_token(): every failure leaves the function
GetAccessTokenScript(env, resp) ==
    IF CredentialsMissing(env) THEN HelperRaises("ValueError: credentials not set")
    ELSE IF resp.kind = "error" THEN HelperRaises("ConnectionError")
    ELSE IF RaiseForStatus(resp.status) THEN HelperRaises("HTTPError")
    ELSE IF ~resp.json THEN HelperRaises("JSONDecodeError")
    ELSE TokenOrValueError(resp)

\* auth.py, get_access_token(): except requests.RequestException: return None
GetAccessTokenAuth(env, resp) ==
    IF CredentialsMissing(env) THEN HelperRaises("ValueError: credentials not set")
    ELSE IF resp.kind = "error" THEN ReturnNone
    ELSE IF RaiseForStatus(resp.status) THEN ReturnNone
    ELSE IF ~resp.json THEN ReturnNone
    ELSE TokenOrValueError(resp)

\* -------------------------------------------------------------------- state
VARIABLES
    now,            \* time.time(), in ticks
    client,         \* "none" until __init__ has returned, then "ready"
    access_token,   \* self._access_token
    expire_time,    \* self._access_token_expire_time, in whole seconds
    posts,          \* token POSTs sent so far; the n-th is answered with token n
    grant,          \* when the stored token was read off its answer, and its expires_in
    ctor,           \* what the last run of __init__ met
    thread,         \* per caller: where it is in its operation, and its locals
    helper          \* the last run of a standalone get_access_token()

vars == <<now, client, access_token, expire_time, posts, grant, ctor, thread, helper>>

NoTokenResponse == [kind |-> "none", status |-> 0, json |-> FALSE, obj |-> [error |-> "none"]]
NoResponse      == [status |-> 0, body |-> [resourceType |-> "none"]]

NoGrant         == [at |-> 0, expires_in |-> 0]

NoHelperRun ==
    [script |-> "none", pc |-> "exited",
     env |-> [CLIENT_ID |-> "unset", CLIENT_SECRET |-> "unset"],
     sent |-> FALSE, response |-> NoTokenResponse, result |-> ReturnNone,
     output |-> "none"]

\* a caller between two operations; prev is how its last operation ended
Idle(prev) ==
    [pc |-> "idle", op |-> "none", query_type |-> "url",
     gateClock |-> 0, gateToken |-> NoToken, gateExpiry |-> 0, gateGrant |-> NoGrant,
     req |-> 0, headers |-> NoToken, full_url |-> <<>>,
     log |-> <<>>, tokenResponse |-> NoTokenResponse, response |-> NoResponse,
     result |-> NoResult, prev |-> prev]

Post(n)        == [method |-> "POST", url |-> TOKEN_URL, token |-> NoToken, req |-> n]
Get(url, tok)  == [method |-> "GET", url |-> url, token |-> tok, req |-> 0]

Init ==
    /\ now = 0
    /\ client = "none"
    /\ access_token = NoToken
    /\ expire_time = 0
    /\ posts = 0
    /\ grant = NoGrant
    /\ ctor = [posts |-> 0, response |-> NoTokenResponse, result |-> Raised("none")]
    /\ thread = [c \in Threads |-> Idle("none")]
    /\ helper = NoHelperRun

\* the wall clock moves on
Tick(answers) ==
    /\ now < answers.lastTick
    /\ now' = now + 1
    /\ UNCHANGED <<client, access_token, expire_time, posts, grant, ctor, thread, helper>>

\* FHIRTerminologyClient.__init__: one eager fetch; the object exists only if
\* it returns
Construct(answers) ==
    /\ client = "none"
    /\ posts < MaxTokens
    /\ posts' = posts + 1
    /\ \E resp \in TokenAnswers(answers, posts + 1) :
          LET res  == GetAccessToken(resp, now)
              pair == InitialiseAccessToken(<<access_token, expire_time>>, res)
          IN  /\ access_token' = pair[1]
              /\ expire_time' = pair[2]
              /\ grant' = IF res.raised THEN grant
                           ELSE [at |-> now, expires_in |-> resp.obj.expires_in]
              /\ client' = IF res.raised THEN "none" ELSE "ready"
              /\ ctor' = [posts |-> 1, response |-> resp, result |-> res]
    /\ UNCHANGED <<now, thread, helper>>

\* auto_refresh_token.wrap, up to the call of _initialise_access_token or of
\* the wrapped method
Wrap(c) ==
    /\ client = "ready"
    /\ thread[c].pc = "idle"
    /\ \E op \in {"from_id", "from_desc"} :
       \E qt \in IF op = "from_id" THEN {"url"} ELSE QueryTypes :
          thread' = [thread EXCEPT ![c] =
              [@ EXCEPT !.pc = IF Expired(now, expire_time) THEN "refresh" ELSE "call",
                        !.op = op,
                        !.query_type = qt,
                        !.gateClock = now,
                        !.gateToken = access_token,
                        !.gateExpiry = expire_time,
                        !.gateGrant = grant]]
    /\ UNCHANGED <<now, client, access_token, expire_time, posts, grant, ctor, helper>>

\* _get_access_token: requests.post is sent
TokenPost(c) ==
    /\ thread[c].pc = "refresh"
    /\ posts < MaxTokens
    /\ posts' = posts + 1
    /\ thread' = [thread EXCEPT ![c] =
          [@ EXCEPT !.pc = "await",
                    !.req = posts + 1,
                    !.log = Append(@, Post(posts + 1))]]
    /\ UNCHANGED <<now, client, access_token, expire_time, grant, ctor, helper>>

\* a refused refresh is tried again
TokenAnswerRetry(c, answers) ==
    /\ thread[c].pc = "await"
    /\ \E resp \in TokenAnswers(answers, thread[c].req) :
          LET res  == GetAccessToken(resp, now)
              pair == InitialiseAccessToken(<<access_token, expire_time>>, res)
          IN  /\ access_token' = pair[1]
              /\ expire_time' = pair[2]
              /\ grant' = IF res.raised THEN grant
                           ELSE [at |-> now, expires_in |-> resp.obj.expires_in]
              /\ thread' = [thread EXCEPT ![c] =
                    [@ EXCEPT !.pc = IF res.raised THEN "refresh" ELSE "call",
                              !.tokenResponse = resp]]
    /\ UNCHANGED <<now, client, posts, ctor, helper>>

\* _get_access_token: requests.post answers; _initialise_access_token stores
\* the pair, or the error leaves wrap
TokenAnswer(c, answers) ==
    /\ thread[c].pc = "await"
    /\ \E resp \in TokenAnswers(answers, thread[c].req) :
          LET res  == GetAccessToken(resp, now)
              pair == InitialiseAccessToken(<<access_token, expire_time>>, res)
          IN  /\ access_token' = pair[1]
              /\ expire_time' = pair[2]
              /\ grant' = IF res.raised THEN grant
                           ELSE [at |-> now, expires_in |-> resp.obj.expires_in]
              /\ thread' = [thread EXCEPT ![c] =
                    [@ EXCEPT !.pc = IF res.raised THEN "done" ELSE "call",
                              !.tokenResponse = resp,
                              !.result = IF res.raised THEN Throws(res.exc) ELSE @]]
    /\ UNCHANGED <<now, client, posts, ctor, helper>>

\* retrieve_concept_codes_from_id
RetrieveFromId(c, answers) ==
    /\ thread[c].pc = "call"
    /\ thread[c].op = "from_id"
    /\ \E resp \in answers.valueSets :
          thread' = [thread EXCEPT ![c] =
              [@ EXCEPT !.pc = "done",
                        !.headers = access_token,
                        !.log = Append(@, Get(<<BASE_URL, "ValueSet/", "id">>, access_token)),
                        !.tokenResponse = NoTokenResponse,
                        !.response = resp,
                        !.result = FromIdResult(resp)]]
    /\ UNCHANGED <<now, client, access_token, expire_time, posts, grant, ctor, helper>>

\* retrieve_concept_codes_from_desc, up to its second requests.get
RetrieveFromDesc(c, answers) ==
    /\ thread[c].pc = "call"
    /\ thread[c].op = "from_desc"
    /\ IF InvalidQueryType(thread[c].query_type)
       THEN thread' = [thread EXCEPT ![c] =
               [@ EXCEPT !.pc = "done",
                         !.tokenResponse = NoTokenResponse,
                         !.result = Throws(QueryTypeError)]]
       ELSE \E resp \in answers.bundles :
               LET first == FirstFullUrl(resp.body)
                   on    == StatusOk(resp.status) /\ ~first.raised
               IN  thread' = [thread EXCEPT ![c] =
                      [@ EXCEPT !.pc = IF on THEN "resolve" ELSE "done",
                                !.headers = access_token,
                                !.log = Append(@, Get(<<BASE_URL, "ValueSet/?",
                                                        thread[c].query_type>>,
                                                      access_token)),
                                !.tokenResponse = NoTokenResponse,
                                !.response = resp,
                                !.full_url = IF on THEN first.url ELSE @,
                                !.result =
                                    IF ~StatusOk(resp.status) THEN Codes(<<>>)
                                    ELSE IF first.raised
                                         THEN CatchIndexError(Throws(first.exc))
                                         ELSE @]]
    /\ UNCHANGED <<now, client, access_token, expire_time, posts, grant, ctor, helper>>

\* retrieve_concept_codes_from_desc, its second requests.get and what follows
ResolveFullUrl(c, answers) ==
    /\ thread[c].pc = "resolve"
    /\ \E resp \in answers.valueSets :
          thread' = [thread EXCEPT ![c] =
              [@ EXCEPT !.pc = "done",
                        !.log = Append(@, Get(thread[c].full_url, thread[c].headers)),
                        !.response = resp,
                        !.result = FromDescResult(resp)]]
    /\ UNCHANGED <<now, client, access_token, expire_time, posts, grant, ctor, helper>>

\* client.raw_query(url): the class defines the two lookups and no other
\* operation, so the attribute lookup fails before anything is sent
RawQuery(c) ==
    /\ client = "ready"
    /\ thread[c].pc = "idle"
    /\ thread' = [thread EXCEPT ![c] =
          [Idle(@.prev) EXCEPT !.pc = "done",
                               !.op = "raw_query",
                               !.result = Throws("AttributeError: raw_query")]]
    /\ UNCHANGED <<now, client, access_token, expire_time, posts, grant, ctor, helper>>

\* a helper is started and its get_access_token() runs: the request is sent
\* only with both credentials set
RunHelper(script, env, resp) ==
    /\ helper.pc = "exited"
    /\ helper' = [script |-> script, pc |-> "called", env |-> env,
                  sent |-> ~CredentialsMissing(env),
                  response |-> IF CredentialsMissing(env) THEN NoTokenResponse ELSE resp,
                  result |-> IF script = "auth.py"
                             THEN GetAccessTokenAuth(env, resp)
                             ELSE GetAccessTokenScript(env, resp),
                  output |-> "none"]
    /\ UNCHANGED <<now, client, access_token, expire_time, posts, grant, ctor, thread>>

\* python auth.py
RunAuth ==
    \E env \in Environments : \E resp \in HelperResponses : RunHelper("auth.py", env, resp)

\* python get_access_token.py
RunGetAccessToken ==
    \E env \in Environments : \E resp \in HelperResponses :
       RunHelper("get_access_token.py", env, resp)

\* auth.py, __main__: if token: print the token, else print the failure
AuthMain ==
    /\ helper.pc = "called"
    /\ helper.script = "auth.py"
    /\ helper' = [helper EXCEPT
          !.pc = "exited",
          !.output = IF helper.result.raised THEN "Traceback"
                     ELSE IF helper.result.none THEN "Failed to retrieve access token"
                     ELSE "Access Token: token"]
    /\ UNCHANGED <<now, client, access_token, expire_time, posts, grant, ctor, thread>>

\* get_access_token.py, __main__: print(f"Access Token: {token}")
GetAccessTokenMain ==
    /\ helper.pc = "called"
    /\ helper.script = "get_access_token.py"
    /\ helper' = [helper EXCEPT
          !.pc = "exited",
          !.output = IF helper.result.raised THEN "Traceback"
                     ELSE IF helper.result.none THEN "Access Token: None"
                     ELSE "Access Token: token"]
    /\ UNCHANGED <<now, client, access_token, expire_time, posts, grant, ctor, thread>>

\* how an operation ended, for the caller
Outcome(t) ==
    IF ~t.result.raised THEN "returned"
    ELSE IF t.tokenResponse.kind # "none" THEN "auth"
    ELSE "raised"

\* the operation returns or raises to its caller
Return(c) ==
    /\ thread[c].pc = "done"
    /\ thread' = [thread EXCEPT ![c] = Idle(Outcome(thread[c]))]
    /\ UNCHANGED <<now, client, access_token, expire_time, posts, grant, ctor, helper>>

Step(c, answers) ==
    \/ Wrap(c)
    \/ TokenPost(c)
    \/ TokenAnswer(c, answers)
    \/ RetrieveFromId(c, answers)
    \/ RetrieveFromDesc(c, answers)
    \/ ResolveFullUrl(c, answers)
    \/ RawQuery(c)
    \/ Return(c)

\* what the servers may answer, and how long the clock is followed
AllAnswers ==
    [valueSets |-> ValueSetResponses, bundles |-> BundleResponses,
     tokens |-> "all", lastTick |-> MaxTime]

\* one caller, as the client is used
Next == Tick(AllAnswers) \/ Construct(AllAnswers) \/ Step(1, AllAnswers)

Spec == Init /\ [][Next]_vars

\* several callers share the instance; the answers are cut down to one of
\* each kind the code tells apart, and the clock to SharedTime ticks
FewAnswers ==
    [valueSets |-> {[status |-> 200, body |-> SomeValueSet],
                    [status |-> 404, body |-> OperationOutcome]},
     bundles   |-> {[status |-> 200, body |-> SomeBundle],
                    [status |-> 200, body |-> [resourceType |-> "Bundle", entry |-> <<>>]]},
     tokens |-> "few", lastTick |-> SharedTime]

NextShared ==
    Tick(FewAnswers) \/ Construct(FewAnswers) \/ \E c \in Threads : Step(c, FewAnswers)

SpecShared == Init /\ [][NextShared]_vars

\* the helpers, each run from the command line
NextHelpers == RunAuth \/ AuthMain \/ RunGetAccessToken \/ GetAccessTokenMain
SpecHelpers == Init /\ [][NextHelpers]_vars

\* ------------------------------------------------------------------- claims
PostsOf(log) == {i \in 1..Len(log) : log[i].method = "POST"}
GetsOf(log)  == {i \in 1..Len(log) : log[i].method = "GET"}

\* the operation of caller c has left the refresh gate
PastGate(c) ==
    /\ thread[c].op \in {"from_id", "from_desc"}
    /\ thread[c].pc \in {"call", "resolve", "done"}

\* C1: at the gate of every operation the stored token is kept only if
\* now < expires_at; with now >= expires_at, the boundary included, a token is
\* fetched first, so that no GET carries a kept token whose expires_at is not
\* later than the clock read at the gate.
C1_RefreshUnlessStrictlyBeforeExpiry ==
    \A c \in Threads :
        LET t == thread[c]
        IN  PastGate(c) /\ t.gateClock >= t.gateExpiry * TicksPerSecond
                => /\ Len(t.log) >= 1
                   /\ t.log[1].method = "POST"
                   /\ \A i \in GetsOf(t.log) : t.log[i].token # t.gateToken

\* C2: an operation that finds the stored expires_at in the past sends exactly
\* one token POST, before any GET, and every GET carries the token that POST
\* was answered with, not the old one.
C2_OneFetchBeforeFirstGet ==
    \A c \in Threads :
        LET t == thread[c]
        IN  t.pc # "idle" /\ t.gateClock > t.gateExpiry * TicksPerSecond
                => /\ t.pc = "refresh" => t.log = <<>>
                   /\ t.pc # "refresh" =>
                        /\ PostsOf(t.log) = {1}
                        /\ \A i \in GetsOf(t.log) :
                              /\ t.log[i].token = t.log[1].req
                              /\ t.log[i].token # t.gateToken

C2_RefreshedThenGet ==
    \E c \in Threads :
        LET t == thread[c]
        IN  /\ t.pc = "done"
            /\ t.gateClock > t.gateExpiry * TicksPerSecond
            /\ Len(t.log) = 3
            /\ t.log[3].method = "GET"
            /\ t.log[3].token = t.log[1].req

\* C3: retrieve_concept_codes_from_desc with a query_type other than "url" and
\* "name" raises the validation error before any network call: no token POST
\* and no GET, whether the token is valid or expired.
C3_InvalidQueryTypeNoNetwork ==
    \A c \in Threads :
        LET t == thread[c]
        IN  t.op = "from_desc" /\ t.query_type \notin {"url", "name"}
                => /\ t.log = <<>>
                   /\ t.pc = "done" => t.result = Throws(QueryTypeError)

\* a search bundle without a single entry
C4_ZeroEntries(bundle) ==
    /\ bundle.resourceType = "Bundle"
    /\ ~("entry" \in DOMAIN bundle) \/ bundle.entry = <<>>

\* C4: a search answered 200 with a bundle of zero entries (entry empty, or
\* entry absent) returns the empty sequence, without raising and without a
\* second GET.
C4_ZeroEntriesReturnEmpty ==
    \A c \in Threads :
        LET t == thread[c]
        IN  (/\ t.op = "from_desc"
             /\ t.pc = "done"
             /\ t.response.status = 200
             /\ C4_ZeroEntries(t.response.body))
                => /\ t.result = Codes(<<>>)
                   /\ Cardinality(GetsOf(t.log)) = 1

\* a ValueSet body that lists no include
C5_NothingIncluded(value_set) ==
    /\ value_set.resourceType = "ValueSet"
    /\ \/ ~("compose" \in DOMAIN value_set)
       \/ ~("include" \in DOMAIN value_set.compose)
       \/ value_set.compose.include = <<>>

\* C5: a 200 ValueSet body without compose, without compose.include or with
\* an empty compose.include yields the empty sequence in both lookups, and
\* never raises.
C5_NothingIncludedReturnEmpty ==
    \A c \in Threads :
        LET t == thread[c]
        IN  (/\ t.pc = "done"
             /\ t.response.status = 200
             /\ C5_NothingIncluded(t.response.body))
                => t.result = Codes(<<>>)

\* an answer of the token endpoint that grants nothing
C6_NoToken(resp) ==
    \/ resp.kind = "error"
    \/ resp.status \notin 200..299
    \/ ~resp.json
    \/ ~("access_token" \in DOMAIN resp.obj)
    \/ ~("expires_in" \in DOMAIN resp.obj)

\* C6: a token fetch fails hard: when the POST errors, is answered with a
\* status outside 2xx, or with a body without access_token or expires_in,
\* _get_access_token raises to the constructor or to the gate, and nothing is
\* stored in place of a token.
C6_FetchFailsHard ==
    /\ ctor.response.kind # "none" /\ C6_NoToken(ctor.response)
            => ctor.result.raised /\ client = "none"
    /\ client = "ready" => access_token # NoToken
    /\ \A c \in Threads :
          LET t == thread[c]
          IN  t.tokenResponse.kind # "none" /\ C6_NoToken(t.tokenResponse)
                  => t.pc = "done" /\ t.result.raised /\ access_token = t.gateToken

\* C7: a data GET answered with a status other than 200 (the read by id, the
\* search, the GET of the first entry) ends the lookup with the empty
\* sequence, and nothing is raised.
C7_Non200ReturnsEmpty ==
    \A c \in Threads :
        LET t == thread[c]
        IN  t.response.status \notin {0, 200}
                => t.pc = "done" /\ t.result = Codes(<<>>)

C7_SecondGetRefused ==
    \E c \in Threads :
        LET t == thread[c]
        IN  /\ t.pc = "done"
            /\ t.op = "from_desc"
            /\ Cardinality(GetsOf(t.log)) = 2
            /\ t.response.status = 204
            /\ t.response.body = SomeValueSet
            /\ t.result = Codes(<<>>)

\* the step in which the fetch of caller c fails
C8_FailedRefreshStep(c) ==
    thread[c].pc = "await" /\ thread'[c].pc = "done"

\* C8: a token fetch that fails at the gate ends the operation with the error
\* and without a GET, leaves access token and expiry as they were (the two
\* only ever change together), and does not break the client: the next
\* operation fetches again and, the fetch answered, goes on to its GET.
C8_FailedRefreshLeavesClientUsable ==
    /\ [][\A c \in Threads : C8_FailedRefreshStep(c)
              => /\ access_token' = access_token
                 /\ expire_time' = expire_time
                 /\ client' = "ready"
                 /\ thread'[c].result.raised
                 /\ GetsOf(thread'[c].log) = {}]_vars
    /\ [][expire_time' # expire_time => access_token' \notin {access_token, NoToken}]_vars
    /\ [](\A c \in Threads :
            LET t == thread[c]
            IN  t.prev = "auth" /\ PastGate(c)
                    => /\ PostsOf(t.log) = {1}
                       /\ t.tokenResponse.kind = "none" /\ t.op = "from_id"
                            => /\ Len(t.log) = 2
                               /\ t.log[2].method = "GET"
                               /\ t.log[2].token = t.log[1].req)

C8_RecoveredAfterFailedRefresh ==
    \E c \in Threads :
        LET t == thread[c]
        IN  /\ t.prev = "auth"
            /\ t.pc = "done"
            /\ t.op = "from_id"
            /\ t.result = Codes(<<"A">>)

\* C9: with two or more callers on one instance whose token has expired, the
\* refresh is single-flight: at most one token fetch is in flight, and no two
\* callers fetch for the same expired token.
C9_SingleFlightRefresh ==
    \A c \in Threads : \A d \in Threads \ {c} :
        /\ ~(thread[c].pc = "await" /\ thread[d].pc = "await")
        /\ PostsOf(thread[c].log) # {} /\ PostsOf(thread[d].log) # {}
                => thread[c].gateToken # thread[d].gateToken

\* C10: the stored expiry comes from the server's expires_in: a token read at
\* time t with expires_in = n is treated as valid until t + n, and an
\* operation invoked at t + n + 1 or later fetches again.  (An operation
\* invoked exactly at the stored expiry is left to C1.)
C10_ValidUntilGrantPlusExpiresIn ==
    \A c \in Threads :
        LET t    == thread[c]
            dies == t.gateGrant.at + t.gateGrant.expires_in * TicksPerSecond
        IN  PastGate(c) /\ t.gateClock # t.gateExpiry * TicksPerSecond
                => /\ t.gateClock < dies <=> PostsOf(t.log) = {}
                   /\ t.gateClock >= dies + TicksPerSecond => PostsOf(t.log) # {}

\* a grant: the token endpoint's answer to valid credentials
C11_Granted(resp) ==
    /\ resp.kind = "response"
    /\ resp.status = 200
    /\ resp.json
    /\ "access_token" \in DOMAIN resp.obj
    /\ "expires_in" \in DOMAIN resp.obj

\* a refusal: the token endpoint's answer to invalid credentials
C11_Refused(resp) == resp.kind = "response" /\ resp.status = 401

\* the step in which __init__ runs
C11_Constructs == client = "none" /\ ctor' # ctor

\* C11 as claimed: with valid credentials the constructor sends exactly one
\* token POST and leaves a token whose expires_at is in the future; with
\* invalid credentials the constructor itself fails.
C11_ConstructedTokenExpiresLater ==
    [][C11_Constructs =>
          /\ C11_Granted(ctor'.response)
                => /\ client' = "ready"
                   /\ posts' = posts + 1
                   /\ access_token' = ctor'.response.obj.access_token
                   /\ expire_time' * TicksPerSecond > now
          /\ C11_Refused(ctor'.response)
                => client' = "none" /\ ctor'.result.raised]_vars

\* C11: with valid credentials, answered with a lifetime of a second or more,
\* the constructor sends exactly one token POST and leaves a token whose
\* expires_at is in the future; with invalid credentials the constructor
\* itself fails.
C11_ConstructedTokenOfPositiveLifetimeExpiresLater ==
    [][C11_Constructs =>
          /\ C11_Granted(ctor'.response) /\ ctor'.response.obj.expires_in >= 1
                => /\ client' = "ready"
                   /\ posts' = posts + 1
                   /\ access_token' = ctor'.response.obj.access_token
                   /\ expire_time' * TicksPerSecond > now
          /\ C11_Refused(ctor'.response)
                => client' = "none" /\ ctor'.result.raised]_vars

C11_Constructed ==
    /\ client = "ready"
    /\ C11_Granted(ctor.response)
    /\ ctor.response.obj.expires_in = 1
    /\ grant.at = 1
    /\ expire_time = 1
    /\ posts = 1

\* a search that matched: a 200 bundle whose first entry names its resource
C12_Matched(resp) ==
    /\ resp.status = 200
    /\ "entry" \in DOMAIN resp.body
    /\ Len(resp.body.entry) >= 1
    /\ "fullUrl" \in DOMAIN resp.body.entry[1]

\* the concepts a ValueSet lists: those of its first include
C12_Concepts(value_set) ==
    IF /\ "compose" \in DOMAIN value_set
       /\ "include" \in DOMAIN value_set.compose
       /\ Len(value_set.compose.include) >= 1
       /\ "concept" \in DOMAIN value_set.compose.include[1]
    THEN value_set.compose.include[1].concept
    ELSE <<>>

C12_SecondGet(c) ==
    LET bundle == thread[c].response
        t      == thread'[c]
        n      == Len(t.log)
        cs     == C12_Concepts(t.response.body)
    IN  /\ C12_Matched(bundle)
        /\ n >= 2
        /\ t.log[n - 1].method = "GET"
        /\ t.log[n - 1].url[1] = BASE_URL
        /\ t.log[n] = [method |-> "GET", url |-> bundle.body.entry[1].fullUrl,
                       token |-> t.log[n - 1].token, req |-> 0]
        /\ t.response.status = 200
              => /\ ~t.result.raised
                 /\ Len(t.result.codes) = Len(cs)
                 /\ \A i \in 1..Len(cs) :
                       "code" \in DOMAIN cs[i] => t.result.codes[i] = cs[i].code

C13_ElementByElement ==
    \A c \in Threads :
       LET t  == thread[c]
           cs == t.response.body.compose.include[1].concept
       IN  /\ t.pc = "done"
           /\ Cardinality(GetsOf(t.log)) = (IF t.op = "from_id" THEN 1 ELSE 2)
           /\ t.response.status = 200
           /\ "compose" \in DOMAIN t.response.body
           /\ "include" \in DOMAIN t.response.body.compose
           /\ Len(t.response.body.compose.include) >= 1
           /\ "concept" \in DOMAIN t.response.body.compose.include[1]
           => /\ ~t.result.raised
              /\ Len(t.result.codes) = Len(cs)
              /\ \A i \in 1..Len(cs) :
                    t.result.codes[i] =
                        IF "code" \in DOMAIN cs[i] THEN cs[i].code ELSE "no code listed"

C13_TwoCodesAndSentinel ==
    \E c \in Threads :
       /\ thread[c].pc = "done"
       /\ thread[c].op = "from_id"
       /\ thread[c].response.status = 200
       /\ C12_Concepts(thread[c].response.body)
              = <<[code |-> "A"], [code |-> "B"], [display |-> "none"]>>
       /\ thread[c].result.codes = <<"A", "B", "no code listed">>

\* C14: the base URL and the token URL are those given at construction for the
\* life of the instance, and every request an operation sends goes to the
\* token URL or to a URL under the base URL, the second GET of a search
\* lookup included.
C14_RequestsStayOnEndpoint ==
    \A c \in Threads : \A i \in 1..Len(thread[c].log) :
       LET request == thread[c].log[i]
       IN  IF request.method = "POST"
           THEN request.url = TOKEN_URL
           ELSE request.url[1] = BASE_URL

\* C15: the requests of one operation are at most one token POST, sent before
\* any GET, and then at most one GET for a lookup by id and at most two for a
\* lookup by search; nothing is sent a second time.
C15_BoundedRequests ==
    \A c \in Threads :
       LET t == thread[c]
       IN  /\ PostsOf(t.log) \subseteq {1}
           /\ t.op = "from_id" => Cardinality(GetsOf(t.log)) <= 1
           /\ t.op = "from_desc" => Cardinality(GetsOf(t.log)) <= 2
           /\ Len(t.log) <= 3
           /\ t.pc = "idle" => t.log = <<>>

C15_PostAndTwoGets ==
    \E c \in Threads :
       /\ thread[c].pc = "done"
       /\ thread[c].op = "from_desc"
       /\ Len(thread[c].log) = 3
       /\ PostsOf(thread[c].log) = {1}
       /\ GetsOf(thread[c].log) = {2, 3}

\* C16: raw_query(url) is an operation of the client: it goes through the
\* refresh gate, sends one GET with the bearer token to the caller's URL, and
\* returns to its caller (the JSON body on 200, an empty object otherwise)
\* without raising.
C16_RawQueryReturns ==
    \A c \in Threads :
       thread[c].op = "raw_query" /\ thread[c].pc = "done"
          => /\ ~thread[c].result.raised
             /\ Cardinality(GetsOf(thread[c].log)) = 1
             /\ \A i \in GetsOf(thread[c].log) : thread[c].log[i].token = access_token

\* the token of caller c was not yet expired when c entered the gate
C17_Unexpired(c) ==
    /\ thread[c].op \in {"from_id", "from_desc"}
    /\ thread[c].gateClock < thread[c].gateExpiry * TicksPerSecond

\* C17: an operation invoked while the token has not expired sends no token
\* POST and leaves the stored token and expiry as they were; the stored pair
\* changes only in the constructor and in the refresh of the gate; and once
\* construction has succeeded the client never goes back to having no token.
C17_TokenOnlyChangesInGate ==
    /\ [](\A c \in Threads :
             C17_Unexpired(c)
                => /\ thread[c].pc \in {"call", "resolve", "done"}
                   /\ PostsOf(thread[c].log) = {}
                   /\ access_token = thread[c].gateToken
                   /\ expire_time = thread[c].gateExpiry)
    /\ [][access_token' # access_token \/ expire_time' # expire_time
             => \/ client = "none" /\ client' = "ready"
                \/ \E c \in Threads :
                      thread[c].pc = "await" /\ thread'[c].pc = "call"]_vars
    /\ [][client = "ready" => client' = "ready" /\ access_token' # NoToken]_vars

C17_LookupWithoutFetch ==
    \E c \in Threads :
       /\ C17_Unexpired(c)
       /\ thread[c].pc = "done"
       /\ thread[c].log # <<>>
       /\ thread[c].result.codes # <<>>
       /\ posts = 1

\* C18: on every 200 ValueSet body, those without compose or with nothing
\* included among them, the lookup by id and the lookup by search (its first
\* entry resolving to that body) end the same way: the same list returned,
\* or the same error raised.
C18_LookupsAgree ==
    \A c \in Threads :
       LET t == thread[c]
       IN  /\ t.pc = "done"
           /\ t.response.status = 200
           /\ t.response.body.resourceType = "ValueSet"
           => /\ t.op = "from_id" => t.result = FromDescResult(t.response)
              /\ t.op = "from_desc" => t.result = FromIdResult(t.response)

\* the token endpoint did not hand the helper a token: it could not be
\* reached, it refused (4xx, 5xx), or its body holds no access_token
C19_EndpointFailed ==
    /\ helper.sent
    /\ \/ helper.response.kind = "error"
       \/ helper.response.status >= 400
       \/ ~helper.response.json
       \/ "access_token" \notin DOMAIN helper.response.obj

\* C19: a standalone get_access_token() never hands its caller an absent
\* token: when the endpoint cannot be reached, refuses, or answers without an
\* access_token, the call raises; and when it returns, it returns a token
\* that is not empty.
C19_HelpersNeverReturnNone ==
    helper.script # "none"
       => /\ C19_EndpointFailed => helper.result.raised
          /\ ~helper.result.raised
                => ~helper.result.none /\ helper.result.token # NoToken
====
